---- MODULE Spec2Model ----
(***************************************************************************)
(* Model of redis-dataloader (createRedisDataLoader): a read-through cache *)
(* made of a DataLoader (the local coalescer) in front of two redis        *)
(* handles, redisRW (primary) and redisRO (replica).                       *)
(*                                                                         *)
(* The modelled variant is the one with the pipelined, fire-and-forget     *)
(* backfill (src/unnamed/part_000, lines 1-263).                           *)
(*                                                                         *)
(* Strings are sequences of characters, so that makeKey concatenates.      *)
(* Application values and redis replies are strings drawn from small sets; *)
(* JSON.stringify / JSON.parse are the two directions of a lookup table.   *)
(***************************************************************************)
EXTENDS Naturals, Sequences, FiniteSets

\* ---------------------------------------------------------------- bounds
\* The number of calls of load, prime, clear, clearLocal and clearAllLocal.
MaxCalls == 3

\* ------------------------------------------------------- values and codec
\* Application values: the objects the fetch function or prime may hand in,
\* null, and (fetch results only) undefined and the empty string.
Null == "null"
Undefined == "undefined"
EmptyStr == "emptystr"
Objects == {"oA", "oB", "oP"}

\* Redis replies / stored payloads: Nil is the nil reply of a missing key,
\* "" the empty payload, the others JSON texts.
Nil == "nil"
EmptyPayload == ""
JSONTexts == {"{A}", "{B}", "{P}"}
\* A payload that is not JSON, as a writer with another codec leaves it: the
\* seven characters LOADING.
Malformed == "LOADING"
BadTexts == {Malformed}
Wire == {Nil, EmptyPayload} \cup JSONTexts \cup BadTexts

JSONstringify(o) ==
  CASE o = "oA" -> "{A}"
    [] o = "oB" -> "{B}"
    [] o = "oP" -> "{P}"

JSONparse(s) ==
  CASE s = "{A}" -> "oA"
    [] s = "{B}" -> "oB"
    [] s = "{P}" -> "oP"

\* JSON.parse throws a SyntaxError for a text that is not JSON.  Its message
\* is the runtime's: it names the offending token, and newer runtimes quote
\* the text as well.
JSONparseThrows(s) == s \in BadTexts

SyntaxErrors(s) ==
  {<<"SyntaxError", "Unexpected", "token", "L", "in", "JSON", "at", "position", "0">>,
   <<"SyntaxError", "Unexpected", "token", "L", s, "is", "not", "valid", "JSON">>}

isObject(v) == v \in Objects

parse(resp) ==
  IF resp = EmptyPayload \/ resp = Nil THEN Null
  ELSE JSONparse(resp)

\* results.map(parse) throws at the first reply parse throws for.
MapParseThrows(vals) == \E n \in 1..Len(vals) : JSONparseThrows(vals[n])

FirstBad(vals) ==
  vals[CHOOSE n \in 1..Len(vals) :
         /\ JSONparseThrows(vals[n])
         /\ \A m \in 1..n - 1 : ~JSONparseThrows(vals[m])]

toString(val) ==
  IF isObject(val) THEN JSONstringify(val) ELSE EmptyPayload

\* ------------------------------------------------------------------ keys
keySpace == <<"u">>
Keys == {<<"a">>, <<"b">>}

\* Structured keys: an object is the tag "obj" and then its properties, name
\* and value, in insertion order.  The same object written in two orders:
KeyXY == <<"obj", "x", "1", "y", "2">>
KeyYX == <<"obj", "y", "2", "x", "1">>
StructuredKeys == {KeyXY, KeyYX}

NoKeysArg == [isArray |-> FALSE, elems |-> <<>>]
\* "key ? ... : ..." and "!key": the empty string is falsy.
truthy(key) == key # <<>>

\* "keys ? ... : ...": an array is truthy, a missing argument is not.
truthyKeys(keys) == keys.isArray

\* _.isObject(k), for a key.
isObjectKey(k) == Len(k) > 0 /\ k[1] = "obj"

PropCount(k) == (Len(k) - 1) \div 2
PropName(k, j) == k[2 * j]
PropVal(k, j) == k[2 * j + 1]

\* The order of the property names, as strings.
NameRank(name) == CASE name = "x" -> 1 [] name = "y" -> 2

\* The text of the properties J of k, in the order "first" picks them.
RECURSIVE PropsText(_, _, _, _)
PropsText(k, J, first(_, _), lead) ==
  IF J = {} THEN <<>>
  ELSE LET j == first(k, J)
       IN (IF lead THEN <<>> ELSE <<",">>)
          \o <<PropName(k, j), ":", PropVal(k, j)>>
          \o PropsText(k, J \ {j}, first, FALSE)

\* Insertion order: the property that comes first in the object.
FirstInserted(k, J) == CHOOSE j \in J : \A i \in J : j <= i

\* Sorted order: the property whose name comes first.
FirstByName(k, J) ==
  CHOOSE j \in J : \A i \in J : NameRank(PropName(k, j)) <= NameRank(PropName(k, i))

\* stringify(k) of json-stable-stringify: the properties sorted by name.
stringify(k) ==
  <<"{">> \o PropsText(k, 1..PropCount(k), FirstByName, TRUE) \o <<"}">>

\* cacheKeyFn mutant: JSON.stringify, which keeps the insertion order.
cacheKeyFnUnsorted(k) ==
  IF isObjectKey(k)
  THEN <<"{">> \o PropsText(k, 1..PropCount(k), FirstInserted, TRUE) \o <<"}">>
  ELSE k

\* options.cacheKeyFn: (k) => (_.isObject(k) ? stringify(k) : k)
cacheKeyFn(k) == IF isObjectKey(k) THEN stringify(k) ELSE k

\* The keys of the DataLoader's cache map for a set of keys.
CacheIds(ks) == {cacheKeyFn(k) : k \in ks}

\* makeKey mutant: the key-space is left out.
makeKeyNoSpace(ks, key) == cacheKeyFn(key)

makeKey(ks, key) ==
  (IF ks # <<>> THEN ks \o <<":">> ELSE <<>>) \o cacheKeyFn(key)

FullKeys == {makeKey(keySpace, k) : k \in Keys}

\* Two keys with the same properties and values, in whatever order.
SameProps(k1, k2) ==
  /\ isObjectKey(k1) /\ isObjectKey(k2)
  /\ {<<PropName(k1, j), PropVal(k1, j)>> : j \in 1..PropCount(k1)} =
     {<<PropName(k2, j), PropVal(k2, j)>> : j \in 1..PropCount(k2)}

\* The object the data source holds for a key.
FetchObject(k) == IF k = <<"a">> THEN "oA" ELSE "oB"

\* ---------------------------------------------------------------- errors
\* An error is its message, a sequence of words.
NoErr == <<>>
LoadingErr == <<"LOADING", "Redis", "is", "loading", "the", "dataset">>
ConnErr == <<"ECONNRESET">>
WriteErr == <<"EPIPE">>
FetchErr == <<"fetch", "failed">>
\* What userLoader.load(key) rejects with: an error of its own for every key.
FetchError(k) == FetchErr \o k
ReplicaErrors == {LoadingErr, ConnErr}
KeyRequired == <<"TypeError", "key", "parameter", "is", "required">>
KeysRequired == <<"TypeError", "keys", "parameter", "is", "required">>
ValueRequired == <<"TypeError", "value", "parameter", "is", "required">>

includes(msg, word) == \E i \in 1..Len(msg) : msg[i] = word

\* isReplicaLoadingDataError mutants.
isReplicaLoadingAlways(ex) == TRUE

isReplicaLoadingNever(ex) == FALSE

isReplicaLoadingDataError(ex) == includes(ex, "LOADING")

\* ----------------------------------------------------------------- state
VARIABLES
  appKeys,    \* the keys the application calls the facade with
  facades,    \* the key-space of every RedisDataLoader constructed
  options,    \* this.options: expire, the seconds an entry lives (0: not set)
  userLoader, \* per key, what userLoader.load(key) may resolve to
  ttl,        \* redisRW: the seconds to live of an entry (0: no expiry)
  store,      \* redisRW: the primary's entries, full key -> payload
  replica,    \* redisRO: the replica's entries, a past state of the primary
  cache,      \* the DataLoader's local cache, key -> entry
  batches,    \* the batches of the DataLoader, queued, in flight and settled
  primes,     \* the prime(key, val) calls made so far
  clears,     \* the clear(key) calls made so far
  rwConn,     \* commands sent on redisRW, not yet executed by the primary
  rwReplies,  \* replies of the primary, not yet handled by the client
  roConn,     \* commands sent on redisRO, not yet answered by the replica
  loads,      \* the loader.load(key) calls made so far and the promise each got
  manys,      \* the loadMany(keys) calls made so far: their loads
  rejected,   \* the calls rejected for their arguments
  localClears, \* the number of clearLocal and clearAllLocal calls so far
  hist,       \* per key: the last prime/clear that resolved, if nothing since
  lastLoad    \* per key: the last load of this tick, if no local clear since

vars == <<appKeys, facades, options, userLoader, ttl, store, replica, cache, batches, primes, clears, rwConn, rwReplies,
          roConn, loads, manys, rejected, localClears, hist, lastLoad>>

NoEntry == [kind |-> "none", b |-> 0, i |-> 0, val |-> Null]
PromiseEntry(b, i) == [kind |-> "promise", b |-> b, i |-> i, val |-> Null]
ValueEntry(v) == [kind |-> "value", b |-> 0, i |-> 0, val |-> v]

NoHist == [ev |-> "none", arg |-> Null]

\* A command on a redis handle; ex is the expiry a set carries (the EX of the
\* set, or the expire queued with it in the same MULTI), 0 for none.
Cmd(op, id, ks, vs) == [op |-> op, id |-> id, keys |-> ks, vals |-> vs, ex |-> 0]

\* "if (opt.expire)": the expiry the sets of this facade carry.
Expiry(opt) == IF opt.expire # 0 THEN opt.expire ELSE 0

WithExpiry(c, opt) == [c EXCEPT !.ex = Expiry(opt)]
Reply(op, id, ok, vs, e) == [op |-> op, id |-> id, ok |-> ok, vals |-> vs, err |-> e]

NewBatch(k) ==
  [keys |-> <<k>>, phase |-> "queued", results |-> <<>>, fetches |-> <<>>,
   dataToStore |-> <<>>, response |-> <<>>, err |-> NoErr,
   roErr |-> NoErr, decodeErr |-> NoErr, rwKeys |-> <<>>, rwMGets |-> 0, raw |-> <<>>,
   from |-> "none", wrote |-> "none"]

\* The store outlives the process: it starts empty or with the entry an
\* earlier process wrote back for a key.
InitialStores ==
  {[fk \in FullKeys |-> Nil],
   [fk \in FullKeys |-> IF fk = makeKey(keySpace, <<"a">>)
                        THEN toString(FetchObject(<<"a">>)) ELSE Nil],
   [fk \in FullKeys |-> IF fk = makeKey(keySpace, <<"b">>)
                        THEN Malformed ELSE Nil]}

\* constructor(ks, userLoader, opt) without options, over a data source that
\* holds an object for a key or nothing.
NoOptions == [expire |-> 0]

ObjectOrNull == [k \in Keys \cup StructuredKeys |-> {FetchObject(k), Null}]

\* Nothing has been called yet.
NoCalls ==
  /\ cache = [id \in CacheIds(appKeys) |-> NoEntry]
  /\ batches = <<>>
  /\ primes = <<>>
  /\ clears = <<>>
  /\ rwConn = <<>>
  /\ rwReplies = <<>>
  /\ roConn = <<>>
  /\ loads = <<>>
  /\ manys = <<>>
  /\ rejected = <<>>
  /\ localClears = 0
  /\ hist = [id \in CacheIds(appKeys) |-> NoHist]
  /\ lastLoad = [id \in CacheIds(appKeys) |-> 0]

\* What this application passes as a key: one of its keys, or the empty
\* string.
KeyArgs == appKeys \cup {<<>>}

\* The same for whatever keys the application uses; and what a caller may
\* pass to loadMany: an array of two keys, or nothing.
AnyKey == Keys \cup StructuredKeys

AnyKeyArg == AnyKey \cup {<<>>}

KeysArgs ==
  {[isArray |-> TRUE, elems |-> ks] : ks \in AnyKey \X AnyKey} \cup {NoKeysArg}

Init ==
  /\ appKeys = Keys
  /\ facades = <<keySpace>>
  /\ options = NoOptions
  /\ userLoader = ObjectOrNull
  /\ store \in InitialStores
  /\ ttl = [fk \in DOMAIN store |-> 0]
  /\ replica = store
  /\ NoCalls

\* ------------------------------------------------------- sequence helpers
Map(f(_), s) == [n \in 1..Len(s) |-> f(s[n])]

CacheKeys(keys) == [n \in 1..Len(keys) |-> makeKey(keySpace, keys[n])]

\* The batch the DataLoader is still collecting keys for (0: none).
Queued ==
  IF Len(batches) > 0 /\ batches[Len(batches)].phase = "queued"
  THEN Len(batches) ELSE 0

\* redis replies are handled from I/O callbacks, and the DataLoader dispatches
\* its batch before the event loop gets to the next I/O callback.
InIOCallback == Queued = 0

\* The calls made so far.
Calls == Len(loads) + Len(primes) + Len(clears) + localClears + Len(rejected)

\* Bookkeeping for a load: the batch, if any, whose applied backfill wrote
\* the null its fetch of the key resolved to, the primary still holding the
\* empty payload for the key (0: none).
NullWrittenBy(k) ==
  LET wrote == {b \in 1..Len(batches) :
                  /\ batches[b].wrote = "applied"
                  /\ \E m \in 1..Len(batches[b].dataToStore) :
                       batches[b].dataToStore[m] = [key |-> k, rawVal |-> "null"]}
  IN IF wrote # {} /\ store[makeKey(keySpace, k)] = EmptyPayload
     THEN CHOOSE b \in wrote : \A c \in wrote : c <= b
     ELSE 0

\* Bookkeeping for a load: the batch, if any, whose applied backfill wrote
\* the object its fetch of the key resolved to, the primary still holding
\* that object's text for the key (0: none).
ObjectWrittenBy(k) ==
  LET wrote == {b \in 1..Len(batches) :
                  /\ batches[b].wrote = "applied"
                  /\ \E m \in 1..Len(batches[b].dataToStore) :
                       /\ batches[b].dataToStore[m].key = k
                       /\ isObject(batches[b].dataToStore[m].rawVal)
                       /\ store[makeKey(keySpace, k)] =
                            toString(batches[b].dataToStore[m].rawVal)}
  IN IF wrote # {} THEN CHOOSE b \in wrote : \A c \in wrote : c <= b ELSE 0

\* Bookkeeping for a load: the last batch, if any, whose pipelined set held a
\* write-back entry of the key and failed (0: none).
WriteLostBy(k) ==
  LET lost == {b \in 1..Len(batches) :
                 /\ batches[b].wrote = "failed"
                 /\ \E m \in 1..Len(batches[b].dataToStore) :
                      batches[b].dataToStore[m].key = k}
  IN IF lost # {} THEN CHOOSE b \in lost : \A c \in lost : c <= b ELSE 0

\* ---------------------------------------------------- rejected arguments
\* Promise.reject(new TypeError(...)): the call does nothing else.
Reject(op, e) ==
  /\ rejected' = Append(rejected, [op |-> op, err |-> e])
  /\ UNCHANGED <<appKeys, facades, options, userLoader, ttl, store, replica, cache, batches, primes, clears, rwConn,
                 rwReplies, roConn, loads, manys, localClears, hist, lastLoad>>

\* ------------------------------------------------------------- load(key)
\* DataLoader.load: the cached promise for the key, or a new promise queued
\* in the current batch.
LoaderLoadNoCache(c, k) ==
  [hit |-> FALSE, entry |-> NoEntry]

LoaderLoad(c, k) ==
  [hit |-> c[cacheKeyFn(k)].kind # "none", entry |-> c[cacheKeyFn(k)]]

\* this.loader.load(k) on the loader state s: its batches, its cache, and the
\* record of the loads.
LoadInto(s, k) ==
  LET got == LoaderLoad(s.cache, k)
      q == IF Len(s.batches) > 0 /\ s.batches[Len(s.batches)].phase = "queued"
           THEN Len(s.batches) ELSE 0
      b == IF q # 0 THEN q ELSE Len(s.batches) + 1
      i == IF q # 0 THEN Len(s.batches[q].keys) + 1 ELSE 1
      entry == IF got.hit THEN got.entry ELSE PromiseEntry(b, i)
  IN [batches |-> IF got.hit THEN s.batches
                  ELSE IF q # 0
                  THEN [s.batches EXCEPT ![q].keys = Append(@, k)]
                  ELSE Append(s.batches, NewBatch(k)),
      cache |-> [s.cache EXCEPT ![cacheKeyFn(k)] = entry],
      loads |-> Append(s.loads, [key |-> k, entry |-> entry,
                                 after |-> s.hist[cacheKeyFn(k)],
                                 prev |-> s.lastLoad[cacheKeyFn(k)],
                                 nullBy |-> NullWrittenBy(k),
                                 objBy |-> ObjectWrittenBy(k),
                                 lostBy |-> WriteLostBy(k)]),
      hist |-> [s.hist EXCEPT ![cacheKeyFn(k)] = NoHist],
      lastLoad |-> [s.lastLoad EXCEPT ![cacheKeyFn(k)] = Len(s.loads) + 1]]

LoaderState ==
  [batches |-> batches, cache |-> cache, loads |-> loads, hist |-> hist,
   lastLoad |-> lastLoad]

SetLoaderState(s) ==
  /\ batches' = s.batches
  /\ cache' = s.cache
  /\ loads' = s.loads
  /\ hist' = s.hist
  /\ lastLoad' = s.lastLoad

Load(k) ==
  /\ Calls < MaxCalls
  /\ k \in KeyArgs
  /\ IF truthy(k)
     THEN /\ SetLoaderState(LoadInto(LoaderState, k))
          /\ UNCHANGED <<appKeys, facades, options, userLoader, ttl, manys, rejected, localClears, store, replica, primes, clears,
                         rwConn, rwReplies, roConn>>
     ELSE Reject("load", KeyRequired)

\* loadMany(keys): this.loader.load(k) for every key, in order, in one tick.
RECURSIVE LoadAll(_, _)
LoadAll(s, ks) ==
  IF ks = <<>> THEN s ELSE LoadAll(LoadInto(s, Head(ks)), Tail(ks))

LoadMany(keys) ==
  /\ Calls < MaxCalls
  /\ \A n \in 1..Len(keys.elems) : keys.elems[n] \in appKeys
  /\ IF truthyKeys(keys)
     THEN /\ Calls + Len(keys.elems) <= MaxCalls
          /\ SetLoaderState(LoadAll(LoaderState, keys.elems))
          /\ manys' = Append(manys, [first |-> Len(loads) + 1,
                                     n |-> Len(keys.elems)])
          /\ UNCHANGED <<appKeys, facades, options, userLoader, ttl, rejected, localClears, store, replica,
                         primes, clears, rwConn, rwReplies, roConn>>
     ELSE Reject("loadMany", KeysRequired)

\* The DataLoader dispatches the queued batch: the batch function starts and
\* rMGet sends the multi-get to the replica.
Dispatch ==
  /\ Queued # 0
  /\ LET b == Queued
     IN /\ batches' = [batches EXCEPT ![b].phase = "mget"]
        /\ roConn' = Append(roConn, Cmd("mget", b, CacheKeys(batches[b].keys), <<>>))
  /\ lastLoad' = [id \in DOMAIN lastLoad |-> 0]
  /\ UNCHANGED <<appKeys, facades, options, userLoader, ttl, manys, rejected, localClears, store, replica, cache, primes, clears, rwConn, rwReplies,
                 loads, hist>>

\* ----------------------------------------------------------------- rDel
NewClear(k) ==
  [key |-> k, phase |-> "del", err |-> NoErr,
   applied |-> FALSE, laterSet |-> FALSE, seen |-> Nil]

\* rDel mutant: the del names the key without its key-space.
rDelBareKey(id, k) == Cmd("del", id, <<cacheKeyFn(k)>>, <<>>)

\* rDel: one del of the full key on redisRW.
rDel(id, k) == Cmd("del", id, <<makeKey(keySpace, k)>>, <<>>)

\* Bookkeeping for the clears in flight: a set of the clear's key was sent
\* on redisRW after its del.
NoteSets(cl, cmds) ==
  [n \in 1..Len(cl) |->
     IF /\ cl[n].phase = "del"
        /\ \E m \in 1..Len(cmds) : \E j \in 1..Len(cmds[m].keys) :
              /\ cmds[m].op \in {"pset", "set", "setget"}
              /\ cmds[m].keys[j] = makeKey(keySpace, cl[n].key)
     THEN [cl[n] EXCEPT !.laterSet = TRUE]
     ELSE cl[n]]

\* -------------------------------------------------------- batch function
\* A promise of fetches: its state and value, and for a fetch that resolved
\* what userLoader.load resolved to ("none" otherwise).
Slot(st, v) == [st |-> st, val |-> v, resp |-> "none"]

\* What the user fetch function may resolve to for the key.
FetchResults(k) == userLoader[k]

\* The loop mutant: the fetch function is called for every position.
BatchLoopAlwaysFetch(results) ==
  [n \in 1..Len(results) |-> Slot("pending", Null)]

\* The loop mutant: an absent position resolves to null without a fetch.
BatchLoopNoFetch(results) ==
  [n \in 1..Len(results) |->
     IF results[n] = Null THEN Slot("value", Null) ELSE Slot("value", results[n])]

\* The loop over the multi-get results: one promise per position, pushed in
\* index order (a pending slot is a call of userLoader.load(keys[index])).
BatchLoop(results) ==
  [n \in 1..Len(results) |->
     IF results[n] = EmptyStr THEN Slot("value", Null)
     ELSE IF results[n] = Null THEN Slot("pending", Null)
     ELSE Slot("value", results[n])]

\* Promise.all mutant: the values in the opposite order of the positions.
PromiseAllReversed(fetches) ==
  [n \in 1..Len(fetches) |-> fetches[Len(fetches) + 1 - n].val]

\* Promise.all(fetches): the values, by position.
PromiseAll(fetches) == [n \in 1..Len(fetches) |-> fetches[n].val]

AllFulfilled(fetches) ==
  \A n \in 1..Len(fetches) : fetches[n].st \in {"value", "ok"}

\* "await Promise.all(fetches)" mutant: the batch function also awaits the
\* pipelined set before it returns.
AwaitAllAndWrite(bt) ==
  IF AllFulfilled(bt.fetches)
  THEN IF Len(bt.dataToStore) > 0
       THEN [bt EXCEPT !.phase = "fetching", !.wrote = "inflight"]
       ELSE [bt EXCEPT !.phase = "done", !.response = PromiseAll(bt.fetches)]
  ELSE [bt EXCEPT !.phase = "fetching"]

\* "await Promise.all(fetches)" and what follows it: once every promise is
\* fulfilled the pipelined set is issued, not awaited, and the response is
\* returned, which resolves the loads of the batch.
AwaitAll(bt) ==
  IF AllFulfilled(bt.fetches)
  THEN [bt EXCEPT !.phase = "done",
                  !.response = PromiseAll(bt.fetches),
                  !.wrote = IF Len(bt.dataToStore) > 0 THEN "inflight" ELSE "none"]
  ELSE [bt EXCEPT !.phase = "fetching"]

\* rPipelineSet: one set per entry of dataToStore, on redisRW.
rPipelineSet(b, data) ==
  WithExpiry(Cmd("pset", b,
                 [n \in 1..Len(data) |-> makeKey(keySpace, data[n].key)],
                 [n \in 1..Len(data) |-> toString(data[n].rawVal)]),
             options)

WriteBack(b, bt) ==
  IF bt.wrote = "inflight" THEN <<rPipelineSet(b, bt.dataToStore)>> ELSE <<>>

\* The batch function from the multi-get results on.
OnResults(bt, results) ==
  AwaitAll([bt EXCEPT !.results = results, !.fetches = BatchLoop(results)])

\* Rejected mutant: the error is swallowed and the batch function never
\* returns.
RejectedSwallowed(bt, e) == bt

\* The batch function rejected: DataLoader's failedDispatch clears every key
\* of the batch from the local cache and rejects every load of the batch.
Rejected(bt, e) == [bt EXCEPT !.phase = "failed", !.err = e]

FailedDispatch(c, bt) ==
  [id \in DOMAIN c |-> IF \E n \in 1..Len(bt.keys) : cacheKeyFn(bt.keys[n]) = id
                       THEN NoEntry ELSE c[id]]

ClearedKeys(bt) == {cacheKeyFn(bt.keys[n]) : n \in 1..Len(bt.keys)}

\* The .catch of the pipelined set mutant: the failure reaches the batch.
PipelineSettledThrows(bt, ok) ==
  IF ok THEN [bt EXCEPT !.wrote = "applied"]
  ELSE [bt EXCEPT !.wrote = "failed", !.phase = "failed", !.err = WriteErr]

\* The pipelined set settled: a rejection is caught and logged.
PipelineSettled(bt, ok) ==
  [bt EXCEPT !.wrote = IF ok THEN "applied" ELSE "failed"]

\* A fetch (userLoader.load(keys[i])) settles.  Fulfilled: the first .then
\* pushes {key, rawVal} on dataToStore, the second turns "" and undefined
\* into null.  Rejected: Promise.all rejects, and so does the batch function.
\* A fetch that settles after Promise.all rejected changes nothing but
\* dataToStore, which nobody reads any more.
FetchValue(resp) == IF resp = EmptyStr \/ resp = Undefined THEN Null ELSE resp

\* The promise of a fetch that resolved to resp.
Fetched(resp) == [Slot("ok", FetchValue(resp)) EXCEPT !.resp = resp]

FetchSettle(b, i) ==
  /\ InIOCallback
  /\ b \in 1..Len(batches)
  /\ batches[b].phase \in {"fetching", "failed"}
  /\ i \in 1..Len(batches[b].fetches)
  /\ batches[b].fetches[i].st = "pending"
  /\ LET bt == batches[b]
         k == bt.keys[i]
     IN IF bt.phase = "fetching"
        THEN \/ \E resp \in FetchResults(k) :
                  LET nb == AwaitAll([bt EXCEPT
                              !.fetches[i] = Fetched(resp),
                              !.dataToStore = Append(@, [key |-> k, rawVal |-> resp])])
                  IN /\ batches' = [batches EXCEPT ![b] = nb]
                     /\ rwConn' = rwConn \o WriteBack(b, nb)
                     /\ clears' = NoteSets(clears, WriteBack(b, nb))
                     /\ UNCHANGED <<cache, lastLoad>>
             \/ /\ batches' = [batches EXCEPT ![b] =
                                 Rejected([bt EXCEPT !.fetches[i] = Slot("err", Null)],
                                          FetchError(k))]
                /\ cache' = FailedDispatch(cache, bt)
                /\ lastLoad' = [kk \in DOMAIN lastLoad |->
                                  IF kk \in ClearedKeys(bt) THEN 0 ELSE lastLoad[kk]]
                /\ UNCHANGED <<rwConn, clears>>
        ELSE /\ \/ \E resp \in FetchResults(k) :
                     batches' = [batches EXCEPT
                       ![b].fetches[i] = Fetched(resp),
                       ![b].dataToStore = Append(@, [key |-> k, rawVal |-> resp])]
                \/ batches' = [batches EXCEPT ![b].fetches[i] = Slot("err", Null)]
             /\ UNCHANGED <<cache, lastLoad, rwConn, clears>>
  /\ UNCHANGED <<appKeys, facades, options, userLoader, ttl, manys, rejected, localClears, store, replica, primes, rwReplies, roConn, loads, hist>>

\* ------------------------------------------------- prime, clear, clearLocal
PrimeVals == {"oP", Null}

\* What a caller may pass to prime as the value.
PrimeArgs == PrimeVals \cup {Undefined}

\* "val === undefined" mutant: no value is refused.
isUndefinedNever(val) == FALSE

\* "val === undefined"
isUndefined(val) == val = Undefined

NewPrime(k, v) == [key |-> k, val |-> v, phase |-> "set", r |-> Null, err |-> NoErr]

\* prime(key, val): rSetAndGet starts with the set on redisRW (a MULTI).
Prime(k, v) ==
  /\ Calls < MaxCalls
  /\ k \in KeyArgs
  /\ IF ~truthy(k) THEN Reject("prime", KeyRequired)
     ELSE IF isUndefined(v) THEN Reject("prime", ValueRequired)
     ELSE /\ primes' = Append(primes, NewPrime(k, v))
          /\ LET c == WithExpiry(Cmd("set", Len(primes) + 1,
                                     <<makeKey(keySpace, k)>>, <<toString(v)>>),
                                 options)
             IN /\ rwConn' = Append(rwConn, c)
                /\ clears' = NoteSets(clears, <<c>>)
          /\ hist' = [hist EXCEPT ![cacheKeyFn(k)] = NoHist]
          /\ UNCHANGED <<appKeys, facades, options, userLoader, ttl, manys, rejected, localClears, store, replica, cache, batches,
                         rwReplies, roConn, loads, lastLoad>>

\* clear mutant: rDel sends the del on redisRO.
ClearOnReplica(k) ==
  /\ Calls < MaxCalls
  /\ k \in KeyArgs
  /\ truthy(k)
  /\ clears' = Append(clears, NewClear(k))
  /\ roConn' = Append(roConn, rDel(Len(clears) + 1, k))
  /\ hist' = [hist EXCEPT ![cacheKeyFn(k)] = NoHist]
  /\ UNCHANGED <<appKeys, facades, options, userLoader, ttl, manys, rejected,
                 localClears, store, replica, cache, batches, primes, rwReplies,
                 rwConn, loads, lastLoad>>

\* clear(key): rDel sends the del on redisRW.
Clear(k) ==
  /\ Calls < MaxCalls
  /\ k \in KeyArgs
  /\ IF truthy(k)
     THEN /\ clears' = Append(clears, NewClear(k))
          /\ rwConn' = Append(rwConn, rDel(Len(clears) + 1, k))
          /\ hist' = [hist EXCEPT ![cacheKeyFn(k)] = NoHist]
          /\ UNCHANGED <<appKeys, facades, options, userLoader, ttl, manys, rejected, localClears, store, replica, cache, batches,
                         primes, rwReplies, roConn, loads, lastLoad>>
     ELSE Reject("clear", KeyRequired)

DropPrimed(h) == IF h.ev = "primed" THEN NoHist ELSE h

\* clearLocal mutant: the key's entry on the primary is deleted as well.
ClearLocalAndDel(k) ==
  /\ Calls < MaxCalls
  /\ k \in appKeys
  /\ localClears' = localClears + 1
  /\ cache' = [cache EXCEPT ![cacheKeyFn(k)] = NoEntry]
  /\ hist' = [hist EXCEPT ![cacheKeyFn(k)] = DropPrimed(@)]
  /\ lastLoad' = [lastLoad EXCEPT ![cacheKeyFn(k)] = 0]
  /\ store' = [store EXCEPT ![makeKey(keySpace, k)] = Nil]
  /\ UNCHANGED <<appKeys, facades, options, userLoader, ttl, manys, rejected, replica, batches, primes, clears, rwConn, rwReplies,
                 roConn, loads>>

\* clearLocal(key): loader.clear(key).
ClearLocal(k) ==
  /\ Calls < MaxCalls
  /\ k \in appKeys
  /\ localClears' = localClears + 1
  /\ cache' = [cache EXCEPT ![cacheKeyFn(k)] = NoEntry]
  /\ hist' = [hist EXCEPT ![cacheKeyFn(k)] = DropPrimed(@)]
  /\ lastLoad' = [lastLoad EXCEPT ![cacheKeyFn(k)] = 0]
  /\ UNCHANGED <<appKeys, facades, options, userLoader, ttl, manys, rejected, store, replica, batches, primes, clears, rwConn, rwReplies,
                 roConn, loads>>

\* clearAllLocal(): loader.clearAll().
ClearAllLocal ==
  /\ Calls < MaxCalls
  /\ localClears' = localClears + 1
  /\ cache' = [id \in DOMAIN cache |-> NoEntry]
  /\ hist' = [id \in DOMAIN hist |-> DropPrimed(hist[id])]
  /\ lastLoad' = [id \in DOMAIN lastLoad |-> 0]
  /\ UNCHANGED <<appKeys, facades, options, userLoader, ttl, manys, rejected, store, replica, batches, primes, clears, rwConn, rwReplies,
                 roConn, loads>>

\* The .then of prime: loader.clear(key).prime(key, r === '' ? null : r).
PrimeLocal(c, k, r) ==
  [c EXCEPT ![cacheKeyFn(k)] = ValueEntry(IF r = EmptyStr THEN Null ELSE r)]

\* The .then of clear: loader.clear(key).
ClearLocalEntry(c, k) == [c EXCEPT ![cacheKeyFn(k)] = NoEntry]

\* rDel(...).then mutant: the local entry is cleared whatever rDel did.
ThenClearAlways(c, k, ok) == ClearLocalEntry(c, k)

\* rDel(...).then(() => this.loader.clear(key)): only when rDel resolved.
ThenClear(c, k, ok) == IF ok THEN ClearLocalEntry(c, k) ELSE c

\* ------------------------------------------------------------ the replica
\* The replica applies the primary's writes later: it holds a past state of
\* the primary until it catches up.
Replicate ==
  /\ replica # store
  /\ replica' = store
  /\ UNCHANGED <<appKeys, facades, options, userLoader, ttl, manys, rejected, localClears, store, cache, batches, primes, clears, rwConn, rwReplies,
                 roConn, loads, hist, lastLoad>>

\* The catch branch of rMGet or of rSetAndGet for the command c on redisRO
\* and the exception e: an error of the replica (vals is empty), or what
\* parse threw for the replies vals.  If the message of e holds LOADING the
\* command is sent to the primary instead; any other exception is thrown on.
RoCatch(c, e, vals) ==
  IF c.op = "mget"
  THEN LET bt == [batches[c.id] EXCEPT
                    !.roErr = IF vals = <<>> THEN e ELSE @,
                    !.decodeErr = IF vals = <<>> THEN @ ELSE e,
                    !.raw = vals]
       IN /\ IF isReplicaLoadingDataError(e)
             THEN /\ batches' = [batches EXCEPT ![c.id] =
                                   [bt EXCEPT !.phase = "mgetRW",
                                              !.rwKeys = c.keys,
                                              !.rwMGets = @ + 1]]
                  /\ rwConn' = Append(rwConn, Cmd("mget", c.id, c.keys, <<>>))
                  /\ UNCHANGED <<cache, lastLoad>>
             ELSE /\ batches' = [batches EXCEPT ![c.id] = Rejected(bt, e)]
                  /\ cache' = FailedDispatch(cache, batches[c.id])
                  /\ lastLoad' = [kk \in DOMAIN lastLoad |->
                                    IF kk \in ClearedKeys(batches[c.id]) THEN 0
                                    ELSE lastLoad[kk]]
                  /\ UNCHANGED rwConn
          /\ UNCHANGED <<primes, clears>>
  ELSE /\ IF isReplicaLoadingDataError(e)
          THEN LET sg == WithExpiry(Cmd("setget", c.id, c.keys,
                                        <<toString(primes[c.id].val)>>), options)
               IN /\ primes' = [primes EXCEPT ![c.id].phase = "setget"]
                  /\ rwConn' = Append(rwConn, sg)
                  /\ clears' = NoteSets(clears, <<sg>>)
          ELSE /\ primes' = [primes EXCEPT ![c.id].phase = "failed",
                                           ![c.id].err = e]
               /\ UNCHANGED <<rwConn, clears>>
       /\ UNCHANGED <<batches, cache, lastLoad>>

\* The replica answers the oldest command on redisRO and the client handles
\* the answer: the try branch of rMGet (mGet) or of rSetAndGet (multi get),
\* and its catch branch when parse throws.
RoReply ==
  /\ InIOCallback
  /\ roConn # <<>>
  /\ LET c == Head(roConn)
         vals == [n \in 1..Len(c.keys) |-> replica[c.keys[n]]]
     IN IF MapParseThrows(vals)
        THEN /\ \E e \in SyntaxErrors(FirstBad(vals)) : RoCatch(c, e, vals)
             /\ UNCHANGED hist
        ELSE IF c.op = "mget"
        THEN /\ batches' = [batches EXCEPT ![c.id] =
                              OnResults([@ EXCEPT !.raw = vals, !.from = "replica"],
                                        Map(parse, vals))]
             /\ UNCHANGED <<cache, primes, hist, lastLoad, clears, rwConn>>
        ELSE LET k == primes[c.id].key
                 r == parse(vals[1])
             IN /\ primes' = [primes EXCEPT ![c.id].phase = "done", ![c.id].r = r]
                /\ cache' = PrimeLocal(cache, k, r)
                /\ hist' = [hist EXCEPT ![cacheKeyFn(k)] =
                              [ev |-> "primed", arg |-> primes[c.id].val]]
                /\ lastLoad' = [lastLoad EXCEPT ![cacheKeyFn(k)] = 0]
                /\ UNCHANGED <<batches, clears, rwConn>>
  /\ roConn' = Tail(roConn)
  /\ UNCHANGED <<appKeys, facades, options, userLoader, ttl, manys, rejected, localClears, store, replica,
                 rwReplies, loads>>

\* The replica answers the oldest command on redisRO with an error.
RoError(e) ==
  /\ InIOCallback
  /\ roConn # <<>>
  /\ RoCatch(Head(roConn), e, <<>>)
  /\ roConn' = Tail(roConn)
  /\ UNCHANGED <<appKeys, facades, options, userLoader, ttl, manys, rejected, localClears, store, replica,
                 rwReplies, loads, hist>>

\* ------------------------------------------------------------ the primary
\* The sets of a command applied in order: the last set of a key wins.
ApplySets(st, keys, vals) ==
  [fk \in DOMAIN st |->
     IF \E n \in 1..Len(keys) : keys[n] = fk
     THEN vals[CHOOSE n \in 1..Len(keys) :
                 /\ keys[n] = fk
                 /\ \A m \in n + 1..Len(keys) : keys[m] # fk]
     ELSE st[fk]]

StoreAfter(st, c) ==
  IF c.op \in {"pset", "set", "setget"} THEN ApplySets(st, c.keys, c.vals)
  ELSE IF c.op = "del"
  THEN [fk \in DOMAIN st |-> IF fk = c.keys[1] THEN Nil ELSE st[fk]]
  ELSE st

\* The expiry of the entries after a command: a set gives its keys its own
\* expiry (none, if it carries none), a del leaves none.
TtlAfter(tt, c) ==
  IF c.op \in {"pset", "set", "setget"}
  THEN [fk \in DOMAIN tt |->
          IF \E n \in 1..Len(c.keys) : c.keys[n] = fk THEN c.ex ELSE tt[fk]]
  ELSE IF c.op = "del"
  THEN [fk \in DOMAIN tt |-> IF fk = c.keys[1] THEN 0 ELSE tt[fk]]
  ELSE tt

ReplyTo(st, c) ==
  IF c.op = "mget" THEN Reply(c.op, c.id, TRUE, [n \in 1..Len(c.keys) |-> st[c.keys[n]]], NoErr)
  ELSE IF c.op = "setget" THEN Reply(c.op, c.id, TRUE, <<st[c.keys[1]]>>, NoErr)
  ELSE Reply(c.op, c.id, TRUE, <<>>, NoErr)

\* The primary executes the oldest command on redisRW and answers it.  The
\* answer to a pipelined backfill set has no continuation but its .catch.
RwExec ==
  /\ rwConn # <<>>
  /\ LET c == Head(rwConn)
     IN /\ store' = StoreAfter(store, c)
        /\ ttl' = TtlAfter(ttl, c)
        /\ IF c.op = "pset"
           THEN /\ batches' = [batches EXCEPT ![c.id] = PipelineSettled(@, TRUE)]
                /\ UNCHANGED rwReplies
           ELSE /\ rwReplies' = Append(rwReplies, ReplyTo(store', c))
                /\ UNCHANGED batches
        /\ clears' = IF c.op = "del" THEN [clears EXCEPT ![c.id].applied = TRUE]
                      ELSE clears
  /\ rwConn' = Tail(rwConn)
  /\ UNCHANGED <<appKeys, facades, options, userLoader, manys, rejected, localClears, replica, cache, primes, roConn, loads, hist, lastLoad>>

\* The sets of a pipeline of which only those at the positions J were applied.
SomeSets(c, J) ==
  [c EXCEPT !.keys = [n \in 1..Len(c.keys) |-> IF n \in J THEN c.keys[n] ELSE <<>>]]

\* RwFail mutant: a pipelined set that failed is sent again.
RwFailRetry ==
  /\ rwConn # <<>>
  /\ LET c == Head(rwConn)
     IN IF c.op = "pset"
        THEN /\ batches' = [batches EXCEPT ![c.id] = PipelineSettled(@, FALSE)]
             /\ rwConn' = Append(Tail(rwConn), c)
             /\ UNCHANGED rwReplies
        ELSE /\ rwReplies' = Append(rwReplies, Reply(c.op, c.id, FALSE, <<>>, WriteErr))
             /\ rwConn' = Tail(rwConn)
             /\ UNCHANGED batches
  /\ UNCHANGED <<appKeys, facades, options, userLoader, ttl, manys, rejected,
                 localClears, store, replica, cache, primes, clears, roConn, loads,
                 hist, lastLoad>>

\* The oldest command on redisRW fails and the command's promise rejects.  A
\* MULTI or a del that fails writes nothing; the sets of execAsPipeline are
\* sent one by one, and the pipeline rejects when one of them fails, whatever
\* the others did.
RwFail ==
  /\ rwConn # <<>>
  /\ LET c == Head(rwConn)
     IN IF c.op = "pset"
        THEN /\ batches' = [batches EXCEPT ![c.id] = PipelineSettled(@, FALSE)]
             /\ \E J \in (SUBSET (1..Len(c.keys))) \ {1..Len(c.keys)} :
                  /\ store' = StoreAfter(store, SomeSets(c, J))
                  /\ ttl' = TtlAfter(ttl, SomeSets(c, J))
             /\ UNCHANGED rwReplies
        ELSE /\ rwReplies' = Append(rwReplies, Reply(c.op, c.id, FALSE, <<>>, WriteErr))
             /\ UNCHANGED <<batches, store, ttl>>
  /\ rwConn' = Tail(rwConn)
  /\ UNCHANGED <<appKeys, facades, options, userLoader, manys, rejected, localClears, replica, cache, primes, clears, roConn, loads, hist, lastLoad>>

\* The client handles the oldest answer of the primary: the continuation of
\* rSetAndGet after "await multiRW.exec()", of clear after rDel, or of rMGet
\* after the multi-get on the primary.
RwReply ==
  /\ InIOCallback
  /\ rwReplies # <<>>
  /\ LET r == Head(rwReplies)
     IN CASE r.op = "set" ->
               /\ IF r.ok
                  THEN /\ primes' = [primes EXCEPT ![r.id].phase = "get"]
                       /\ roConn' = Append(roConn,
                            Cmd("get", r.id, <<makeKey(keySpace, primes[r.id].key)>>, <<>>))
                  ELSE /\ primes' = [primes EXCEPT ![r.id].phase = "failed",
                                                   ![r.id].err = r.err]
                       /\ UNCHANGED roConn
               /\ UNCHANGED <<batches, cache, clears, hist, lastLoad, rwConn>>
          [] r.op = "setget" ->
               LET k == primes[r.id].key
               IN /\ IF r.ok
                     THEN /\ primes' = [primes EXCEPT ![r.id].phase = "done",
                                                      ![r.id].r = parse(r.vals[1])]
                          /\ cache' = PrimeLocal(cache, k, parse(r.vals[1]))
                          /\ hist' = [hist EXCEPT ![cacheKeyFn(k)] =
                                        [ev |-> "primed", arg |-> primes[r.id].val]]
                          /\ lastLoad' = [lastLoad EXCEPT ![cacheKeyFn(k)] = 0]
                     ELSE /\ primes' = [primes EXCEPT ![r.id].phase = "failed",
                                                      ![r.id].err = r.err]
                          /\ UNCHANGED <<cache, hist, lastLoad>>
                  /\ UNCHANGED <<batches, clears, roConn, rwConn>>
          [] r.op = "del" ->
               LET k == clears[r.id].key
               IN /\ IF r.ok
                     THEN /\ clears' = [clears EXCEPT ![r.id].phase = "done",
                                      ![r.id].seen = store[makeKey(keySpace, k)]]
                          /\ cache' = ThenClear(cache, k, TRUE)
                          /\ hist' = [hist EXCEPT ![cacheKeyFn(k)] = [ev |-> "cleared", arg |-> Null]]
                          /\ lastLoad' = [lastLoad EXCEPT ![cacheKeyFn(k)] = 0]
                     ELSE /\ clears' = [clears EXCEPT ![r.id].phase = "failed",
                                                      ![r.id].err = r.err]
                          /\ cache' = ThenClear(cache, k, FALSE)
                          /\ UNCHANGED <<hist, lastLoad>>
                  /\ UNCHANGED <<batches, primes, roConn, rwConn>>
          [] r.op = "mget" ->
               /\ IF r.ok /\ ~MapParseThrows(r.vals)
                  THEN LET nb == OnResults([batches[r.id] EXCEPT !.raw = r.vals,
                                                                   !.from = "primary"],
                                           Map(parse, r.vals))
                       IN /\ batches' = [batches EXCEPT ![r.id] = nb]
                          /\ UNCHANGED <<cache, lastLoad>>
                  ELSE /\ \E e \in (IF r.ok THEN SyntaxErrors(FirstBad(r.vals))
                                    ELSE {r.err}) :
                            batches' = [batches EXCEPT ![r.id] =
                              Rejected([@ EXCEPT !.decodeErr = IF r.ok THEN e ELSE @,
                                                 !.raw = r.vals], e)]
                       /\ cache' = FailedDispatch(cache, batches[r.id])
                       /\ lastLoad' = [kk \in DOMAIN lastLoad |->
                                         IF kk \in ClearedKeys(batches[r.id]) THEN 0
                                         ELSE lastLoad[kk]]
               /\ UNCHANGED <<primes, clears, hist, roConn, rwConn>>
  /\ rwReplies' = Tail(rwReplies)
  /\ UNCHANGED <<appKeys, facades, options, userLoader, ttl, manys, rejected, localClears, store, replica, loads>>

\* ------------------------------------------------------------------ Next
Next ==
  \/ \E k \in AnyKeyArg : Load(k)
  \/ \E keys \in KeysArgs : LoadMany(keys)
  \/ Dispatch
  \/ \E b \in 1..MaxCalls, i \in 1..MaxCalls : FetchSettle(b, i)
  \/ \E k \in AnyKeyArg, v \in PrimeArgs : Prime(k, v)
  \/ \E k \in AnyKeyArg : Clear(k)
  \/ \E k \in AnyKey : ClearLocal(k)
  \/ ClearAllLocal
  \/ Replicate
  \/ RoReply
  \/ \E e \in ReplicaErrors : RoError(e)
  \/ RwExec
  \/ RwFail
  \/ RwReply

Spec == Init /\ [][Next]_vars

\* ---------------------------------------------------- structured keys
\* The same program, called with one structured key written in two orders.
InitStructured ==
  /\ appKeys = StructuredKeys
  /\ facades = <<keySpace>>
  /\ options = NoOptions
  /\ userLoader = ObjectOrNull
  /\ store = [fk \in {makeKey(keySpace, k) : k \in appKeys} |-> Nil]
  /\ ttl = [fk \in DOMAIN store |-> 0]
  /\ replica = store
  /\ NoCalls

SpecStructured == InitStructured /\ [][Next]_vars

\* ------------------------------------------------- a source without objects
\* The same program over a data source that holds no object for a key: the
\* fetch function resolves to the empty string, to undefined or to null.
EmptyOrNull == [k \in Keys \cup StructuredKeys |-> {EmptyStr, Undefined, Null}]

InitEmptySource ==
  /\ appKeys = {<<"a">>}
  /\ facades = <<keySpace>>
  /\ options = NoOptions
  /\ userLoader = EmptyOrNull
  /\ store = [fk \in {makeKey(keySpace, k) : k \in appKeys} |-> Nil]
  /\ ttl = [fk \in DOMAIN store |-> 0]
  /\ replica = store
  /\ NoCalls

SpecEmptySource == InitEmptySource /\ [][Next]_vars

\* ------------------------------------------------- with every call answered
\* The same program for one key, absent from the store or stored, where the
\* DataLoader dispatches the batch it queued, both redis handles answer every
\* command, the client handles every answer, and every fetch settles.
InitOneKey ==
  /\ appKeys = {<<"a">>}
  /\ facades = <<keySpace>>
  /\ options = NoOptions
  /\ userLoader = ObjectOrNull
  /\ store \in {[fk \in {makeKey(keySpace, <<"a">>)} |-> v] :
                   v \in {Nil, toString(FetchObject(<<"a">>))}}
  /\ ttl = [fk \in DOMAIN store |-> 0]
  /\ replica = store
  /\ NoCalls

Answered ==
  /\ WF_vars(Dispatch)
  /\ WF_vars(RoReply \/ \E e \in ReplicaErrors : RoError(e))
  /\ WF_vars(RwExec \/ RwFail)
  /\ WF_vars(RwReply)
  /\ WF_vars(\E b \in 1..MaxCalls, i \in 1..MaxCalls : FetchSettle(b, i))

SpecAnswered == InitOneKey /\ [][Next]_vars /\ Answered

\* ------------------------------------------------------ with an expiry
\* The store drops an entry whose time to live has run out.
Expire(fk) ==
  /\ fk \in DOMAIN store
  /\ ttl[fk] > 0
  /\ store' = [store EXCEPT ![fk] = Nil]
  /\ ttl' = [ttl EXCEPT ![fk] = 0]
  /\ UNCHANGED <<appKeys, facades, options, userLoader, replica, cache, batches,
                 primes, clears, rwConn, rwReplies, roConn, loads, manys, rejected,
                 localClears, hist, lastLoad>>

\* What a caller may configure as expire: nothing, or a number of seconds.
ExpireOptions == {[expire |-> 0], [expire |-> 60]}

\* The same program constructed with or without expire, for one key.
InitExpire ==
  /\ appKeys = {<<"a">>}
  /\ facades = <<keySpace>>
  /\ options \in ExpireOptions
  /\ userLoader = ObjectOrNull
  /\ store = [fk \in {makeKey(keySpace, k) : k \in appKeys} |-> Nil]
  /\ ttl = [fk \in DOMAIN store |-> 0]
  /\ replica = store
  /\ NoCalls

NextExpire ==
  \/ Next
  \/ \E fk \in FullKeys : Expire(fk)

SpecExpire == InitExpire /\ [][NextExpire]_vars

\* --------------------------------------------- the earlier rSetAndGet
\* rSetAndGet as the earlier variant of the module has it (prime and the
\* backfill of a miss both call it): toString, then a set on redis, then a
\* MULTI of the same set and, if configured, the expire.
LegacyToString(val) == IF val = Null THEN EmptyPayload ELSE JSONstringify(val)

isEmpty(val) == val = EmptyPayload

\* The call, up to "await redis.set(fullKey, val)" being sent.
LegacySetAndGet(k, v) ==
  /\ Len(primes) < MaxCalls
  /\ IF isEmpty(LegacyToString(v))
     THEN /\ primes' = Append(primes, [NewPrime(k, v) EXCEPT !.phase = "done"])
          /\ UNCHANGED rwConn
     ELSE /\ primes' = Append(primes, NewPrime(k, v))
          /\ rwConn' = Append(rwConn, Cmd("set", Len(primes) + 1,
                                          <<makeKey(keySpace, k)>>,
                                          <<LegacyToString(v)>>))
  /\ UNCHANGED <<appKeys, facades, options, userLoader, ttl, store, replica, cache,
                 batches, clears, rwReplies, roConn, loads, manys, rejected,
                 localClears, hist, lastLoad>>

\* redis executes the oldest command and the call goes on: after the set,
\* with the MULTI of set and expire; after the MULTI, with the read-back.
LegacyExec ==
  /\ rwConn # <<>>
  /\ LET c == Head(rwConn)
     IN /\ store' = StoreAfter(store, c)
        /\ ttl' = TtlAfter(ttl, c)
        /\ IF primes[c.id].phase = "set"
           THEN /\ primes' = [primes EXCEPT ![c.id].phase = "multi"]
                /\ rwConn' = Append(Tail(rwConn), WithExpiry(c, options))
           ELSE /\ primes' = [primes EXCEPT ![c.id].phase = "get"]
                /\ rwConn' = Tail(rwConn)
  /\ UNCHANGED <<appKeys, facades, options, userLoader, replica, cache, batches,
                 clears, rwReplies, roConn, loads, manys, rejected, localClears,
                 hist, lastLoad>>

\* The oldest command fails: the await throws and the call is over.
LegacyFail ==
  /\ rwConn # <<>>
  /\ primes' = [primes EXCEPT ![Head(rwConn).id].phase = "failed",
                              ![Head(rwConn).id].err = WriteErr]
  /\ rwConn' = Tail(rwConn)
  /\ UNCHANGED <<appKeys, facades, options, userLoader, ttl, store, replica, cache,
                 batches, clears, rwReplies, roConn, loads, manys, rejected,
                 localClears, hist, lastLoad>>

InitLegacy ==
  /\ appKeys = Keys
  /\ facades = <<keySpace>>
  /\ options \in ExpireOptions
  /\ userLoader = ObjectOrNull
  /\ store = [fk \in FullKeys |-> Nil]
  /\ ttl = [fk \in DOMAIN store |-> 0]
  /\ replica = store
  /\ NoCalls

NextLegacy ==
  \/ \E k \in Keys, v \in Objects \cup {Null} : LegacySetAndGet(k, v)
  \/ LegacyExec
  \/ LegacyFail
  \/ \E fk \in FullKeys : Expire(fk)

SpecLegacy == InitLegacy /\ [][NextLegacy]_vars

\* ------------------------------------------- two facades on one redis
\* Two RedisDataLoader instances, constructed with different key-spaces, on
\* the same redisRW: what each writes and deletes, by full key.
KeySpaces == {<<>>, <<"u">>, <<"v">>, <<"u", ":">>, <<"u", ":", "a">>}
KeyStrings == {<<"a">>, <<":", "a">>, <<"u", ":", "a">>}

FullKeysOf(fs) == {makeKey(fs[f], k) : f \in 1..Len(fs), k \in KeyStrings}

InitFacades ==
  /\ appKeys = {}
  /\ facades \in {fs \in KeySpaces \X KeySpaces : fs[1] # fs[2]}
  /\ options = NoOptions
  /\ userLoader = ObjectOrNull
  /\ store = [fk \in FullKeysOf(facades) |-> Nil]
  /\ ttl = [fk \in DOMAIN store |-> 0]
  /\ replica = store
  /\ NoCalls

\* The set of rSetAndGet (prime) or of rPipelineSet (backfill) by facade f.
FacadeSet(f, k, v) ==
  /\ store' = [store EXCEPT ![makeKey(facades[f], k)] = toString(v)]
  /\ UNCHANGED <<appKeys, facades, options, userLoader, ttl, replica, cache, batches, primes, clears, rwConn, rwReplies,
                 roConn, loads, manys, rejected, localClears, hist, lastLoad>>

\* The del of rDel (clear) by facade f.
FacadeDel(f, k) ==
  /\ store' = [store EXCEPT ![makeKey(facades[f], k)] = Nil]
  /\ UNCHANGED <<appKeys, facades, options, userLoader, ttl, replica, cache, batches, primes, clears, rwConn, rwReplies,
                 roConn, loads, manys, rejected, localClears, hist, lastLoad>>

NextFacades ==
  \/ \E f \in 1..2, k \in KeyStrings, v \in PrimeVals : FacadeSet(f, k, v)
  \/ \E f \in 1..2, k \in KeyStrings : FacadeDel(f, k)

SpecFacades == InitFacades /\ [][NextFacades]_vars

\* ======================================================= what a caller sees
\* The promise load() returned: resolved from a primed entry or from the
\* response of its batch, by position; rejected when its batch rejected.
LoadResolved(l) ==
  \/ l.entry.kind = "value"
  \/ l.entry.kind = "promise" /\ batches[l.entry.b].phase = "done"

LoadRejected(l) ==
  l.entry.kind = "promise" /\ batches[l.entry.b].phase = "failed"

LoadValue(l) ==
  IF l.entry.kind = "value" THEN l.entry.val
  ELSE batches[l.entry.b].response[l.entry.i]

LoadError(l) == batches[l.entry.b].err

\* Whether the batch called userLoader.load for position i.
FetchInvoked(bt, i) ==
  i \in 1..Len(bt.fetches) /\ bt.fetches[i].st \in {"pending", "ok", "err"}

HasResults(bt) == bt.phase \in {"fetching", "done"} \/ Len(bt.fetches) > 0

\* ================================================================== claims

\* C1: the response of a batch has the length of its keys, and position i
\* holds the result for keys[i]: the decoded stored value where the multi-get
\* found one, else what the fetch of keys[i] resolved to, in whatever order
\* the fetches completed.
C1_ResponseInKeyOrder ==
  \A b \in 1..Len(batches) :
    LET bt == batches[b]
    IN bt.phase = "done" =>
         /\ Len(bt.response) = Len(bt.keys)
         /\ \A i \in 1..Len(bt.keys) :
              IF bt.results[i] # Null
              THEN bt.response[i] = bt.results[i]
              ELSE /\ bt.response[i] \in {Null, FetchObject(bt.keys[i])}
                   /\ \E n \in 1..Len(bt.dataToStore) :
                        /\ bt.dataToStore[n].key = bt.keys[i]
                        /\ FetchValue(bt.dataToStore[n].rawVal) = bt.response[i]

\* C1 witness: a settled batch of two keys whose second fetch completed first.
C1_Witness ==
  \E b \in 1..Len(batches) :
    LET bt == batches[b]
    IN /\ bt.phase = "done"
       /\ Len(bt.keys) = 2
       /\ Len(bt.dataToStore) = 2
       /\ bt.dataToStore[1].key = bt.keys[2]
       /\ bt.keys[1] # bt.keys[2]
       /\ bt.response[1] = FetchObject(bt.keys[1])
       /\ bt.response[2] = FetchObject(bt.keys[2])

\* C2: a load of a key that follows another load of the same key in the same
\* tick gets the same promise, and the batch calls the fetch function once for
\* that promise when the multi-get found the key absent.
C2_SameTickLoadsShareOneFetch ==
  \A n \in 1..Len(loads) :
    LET l == loads[n]
    IN l.prev # 0 =>
         /\ l.entry = loads[l.prev].entry
         /\ l.entry.kind = "promise" =>
              LET bt == batches[l.entry.b]
              IN /\ Len(bt.keys) >= l.entry.i
                 /\ bt.keys[l.entry.i] = l.key
                 /\ (HasResults(bt) /\ bt.results[l.entry.i] = Null)
                      => FetchInvoked(bt, l.entry.i)
                 /\ Cardinality({m \in 1..Len(bt.dataToStore) :
                                   bt.dataToStore[m].key = l.key}) <=
                    Cardinality({m \in 1..Len(bt.keys) : bt.keys[m] = l.key})

\* C2 witness: three loads of one key in one tick, resolved by one fetch.
C2_Witness ==
  /\ Len(loads) = 3
  /\ loads[2].prev = 1
  /\ loads[3].prev = 2
  /\ loads[3].entry.kind = "promise"
  /\ LET bt == batches[loads[3].entry.b]
     IN /\ bt.phase = "done"
        /\ Len(bt.keys) = 1
        /\ Len(bt.dataToStore) = 1
        /\ LoadValue(loads[1]) = FetchObject(loads[1].key)
        /\ LoadValue(loads[3]) = LoadValue(loads[1])

C4_ReadDoesNotAwaitWrite ==
  \A b \in 1..Len(batches) :
    LET bt == batches[b]
    IN /\ bt.wrote = "inflight" => bt.phase = "done"
       /\ bt.phase = "fetching" =>
            \E i \in 1..Len(bt.fetches) : bt.fetches[i].st = "pending"

\* C4 witness: a load resolved to the fetched object while the set of that
\* object is still waiting on the primary's connection.
C4_Witness ==
  \E n \in 1..Len(loads) :
    /\ loads[n].entry.kind = "promise"
    /\ batches[loads[n].entry.b].wrote = "inflight"
    /\ \E m \in 1..Len(rwConn) : rwConn[m].op = "pset" /\ rwConn[m].id = loads[n].entry.b
    /\ LoadResolved(loads[n])
    /\ LoadValue(loads[n]) = FetchObject(loads[n].key)

\* C5: a batch whose multi-get on the replica failed with a message holding
\* LOADING sent the same keys once to the primary; once the primary answered,
\* the batch goes on with the primary's decoded answer and does not reject
\* with a store error.
C5_LoadingFallsBackToPrimary ==
  \A b \in 1..Len(batches) :
    LET bt == batches[b]
    IN (bt.roErr # NoErr /\ includes(bt.roErr, "LOADING")) =>
         /\ bt.rwMGets = 1
         /\ bt.rwKeys = CacheKeys(bt.keys)
         /\ bt.phase = "mgetRW" =>
              Cardinality({m \in 1..Len(rwConn) :
                             rwConn[m].op = "mget" /\ rwConn[m].id = b}) +
              Cardinality({m \in 1..Len(rwReplies) :
                             rwReplies[m].op = "mget" /\ rwReplies[m].id = b}) = 1
         /\ bt.from # "replica"
         /\ bt.from = "primary" =>
              /\ bt.results = Map(parse, bt.raw)
              /\ bt.phase = "failed" =>
                   \E i \in 1..Len(bt.keys) : bt.err = FetchError(bt.keys[i])

\* C5 witness: the replica was loading, the primary held the entry, and the
\* load resolved to the stored object without an error.
C5_Witness ==
  \E n \in 1..Len(loads) :
    /\ loads[n].entry.kind = "promise"
    /\ LET bt == batches[loads[n].entry.b]
       IN /\ bt.roErr = LoadingErr
          /\ bt.from = "primary"
          /\ bt.phase = "done"
          /\ bt.raw[loads[n].entry.i] \in JSONTexts
          /\ LoadValue(loads[n]) = JSONparse(bt.raw[loads[n].entry.i])

\* C6: a batch whose multi-get on the replica failed with another error has
\* not contacted the primary, called no fetch and issued no write-back, and
\* every load of the batch is rejected with that error.
C6_OtherReplicaErrorPropagates ==
  \A b \in 1..Len(batches) :
    LET bt == batches[b]
    IN (bt.roErr # NoErr /\ ~includes(bt.roErr, "LOADING")) =>
         /\ bt.rwMGets = 0
         /\ bt.rwKeys = <<>>
         /\ bt.from = "none"
         /\ ~\E m \in 1..Len(rwConn) : rwConn[m].op \in {"mget", "pset"} /\ rwConn[m].id = b
         /\ bt.fetches = <<>>
         /\ bt.dataToStore = <<>>
         /\ bt.wrote = "none"
         /\ bt.phase = "failed"
         /\ bt.err = bt.roErr
         /\ \A n \in 1..Len(loads) :
              (loads[n].entry.kind = "promise" /\ loads[n].entry.b = b)
                => LoadRejected(loads[n]) /\ LoadError(loads[n]) = bt.roErr

\* C6 witness: two loads of a batch rejected with the replica's error.
C6_Witness ==
  \E n, m \in 1..Len(loads) :
    /\ n # m
    /\ loads[n].entry.kind = "promise"
    /\ loads[m].entry.kind = "promise"
    /\ loads[n].entry.b = loads[m].entry.b
    /\ loads[n].entry.i # loads[m].entry.i
    /\ batches[loads[n].entry.b].roErr = ConnErr
    /\ LoadRejected(loads[n]) /\ LoadError(loads[n]) = ConnErr
    /\ LoadRejected(loads[m]) /\ LoadError(loads[m]) = ConnErr

\* C7 (as claimed): a load of a key issued after prime(key, V) resolved, with
\* no call for the key in between, is served from the local entry and
\* resolves to V.
C7_LoadAfterPrimeReturnsPrimed ==
  \A n \in 1..Len(loads) :
    loads[n].after.ev = "primed" =>
      /\ loads[n].entry.kind = "value"
      /\ LoadValue(loads[n]) = loads[n].after.arg

\* C8 (as claimed): a load of a key issued after clear(key) resolved, and
\* that resolved, had the fetch function called for it.
C8_LoadAfterClearFetches ==
  \A n \in 1..Len(loads) :
    (loads[n].after.ev = "cleared" /\ LoadResolved(loads[n])) =>
      /\ loads[n].entry.kind = "promise"
      /\ FetchInvoked(batches[loads[n].entry.b], loads[n].entry.i)

\* C9 (as claimed): when clear(key) resolved, the primary had executed the
\* del and held no entry for the key's full cache key.
C9_ClearLeavesNoEntry ==
  \A c \in 1..Len(clears) :
    clears[c].phase = "done" =>
      /\ clears[c].applied
      /\ clears[c].seen = Nil

\* C9 (amended): when clear(key) resolved, the primary had executed the del,
\* and it held no entry for the key's full cache key unless a set of that key
\* (of a prime or of a backfill) was sent to the primary after the del.
C9_ClearAwaitsDelete ==
  \A c \in 1..Len(clears) :
    clears[c].phase = "done" =>
      /\ clears[c].applied
      /\ clears[c].seen = Nil \/ clears[c].laterSet

\* C9 witness: clear resolved for a key whose load had resolved from a fetch;
\* the store entry is gone and so is the local entry.
C9_Witness ==
  \E c \in 1..Len(clears), n \in 1..Len(loads) :
    /\ clears[c].phase = "done"
    /\ clears[c].applied
    /\ clears[c].seen = Nil
    /\ ~clears[c].laterSet
    /\ loads[n].key = clears[c].key
    /\ loads[n].entry.kind = "promise"
    /\ batches[loads[n].entry.b].wrote = "applied"
    /\ cache[cacheKeyFn(clears[c].key)].kind = "none"
    /\ store[makeKey(keySpace, clears[c].key)] = Nil

\* C10 (as claimed): a load of a key issued after a batch wrote back the
\* null its fetch of the key resolved to, and whose own batch read the empty
\* payload for the key, resolves to null without a call of the fetch function.
C10_NullFetchNotRefetched ==
  \A n \in 1..Len(loads) :
    LET l == loads[n]
    IN (/\ l.nullBy # 0
        /\ l.entry.kind = "promise"
        /\ l.entry.b # l.nullBy
        /\ l.entry.i \in 1..Len(batches[l.entry.b].raw)
        /\ batches[l.entry.b].raw[l.entry.i] = EmptyPayload)
       => /\ ~FetchInvoked(batches[l.entry.b], l.entry.i)
          /\ LoadResolved(l) => LoadValue(l) = Null

\* C11 (as claimed): in every batch that got its multi-get results, a position
\* whose store entry was the empty payload resolves to null without a call of
\* the fetch function, and the fetch function is called for every position
\* whose entry was absent.
C11_EmptyMarkerDistinctFromAbsent ==
  \A b \in 1..Len(batches) :
    LET bt == batches[b]
    IN HasResults(bt) =>
         \A i \in 1..Len(bt.raw) :
           /\ bt.raw[i] = EmptyPayload =>
                /\ ~FetchInvoked(bt, i)
                /\ bt.phase = "done" => bt.response[i] = Null
           /\ bt.raw[i] = Nil => FetchInvoked(bt, i)

\* C12: a step that is load, prime or clear with the empty string as key,
\* prime with undefined as value, or loadMany without its keys, rejects the
\* call with a TypeError and does nothing else: no command on redisRW or
\* redisRO, no batch and so no fetch, the stores and the local cache unchanged.
C12_InvalidArgumentsRejected ==
  [][(\/ Load(<<>>)
      \/ Clear(<<>>)
      \/ \E v \in PrimeArgs : Prime(<<>>, v)
      \/ \E k \in AnyKey : Prime(k, Undefined)
      \/ LoadMany(NoKeysArg))
     => /\ Len(rejected') = Len(rejected) + 1
        /\ rejected'[Len(rejected')].err \in {KeyRequired, KeysRequired, ValueRequired}
        /\ UNCHANGED <<store, replica, cache, batches, primes, clears, rwConn,
                       rwReplies, roConn, loads, manys>>]_vars

\* C12 witness: a prime without a value, a loadMany without keys and a load
\* of the empty string were rejected.
C12_Witness ==
  /\ \E n \in 1..Len(rejected) :
       rejected[n].op = "prime" /\ rejected[n].err = ValueRequired
  /\ \E n \in 1..Len(rejected) :
       rejected[n].op = "loadMany" /\ rejected[n].err = KeysRequired
  /\ \E n \in 1..Len(rejected) :
       rejected[n].op = "load" /\ rejected[n].err = KeyRequired
  /\ batches = <<>> /\ rwConn = <<>> /\ roConn = <<>>

\* C13 (as claimed): when prime(key, V) resolved, the value it put in the
\* local cache for the key, in place of whatever entry was there, is V.
C13_PrimeStoresGivenValue ==
  \A p \in 1..Len(primes) :
    primes[p].phase = "done" => primes[p].r = primes[p].val

\* C14: a clearLocal(key) or clearAllLocal() step sends no command on redisRW
\* or redisRO and leaves the primary's and the replica's entries, and the
\* answers in flight, as they are; only the local cache loses entries.
C14_LocalClearsLeaveStore ==
  [][((\E k \in AnyKey : ClearLocal(k)) \/ ClearAllLocal)
     => /\ UNCHANGED <<store, replica, rwConn, rwReplies, roConn>>
        /\ \A id \in DOMAIN cache : cache'[id] \in {cache[id], NoEntry}]_vars

\* C14 witness: after a local clear the local entry of a key is gone while
\* the primary still holds the entry a load of the key wrote back.
C14_Witness ==
  /\ localClears > 0
  /\ \E n \in 1..Len(loads) :
       /\ loads[n].entry.kind = "promise"
       /\ batches[loads[n].entry.b].wrote = "applied"
       /\ cache[cacheKeyFn(loads[n].key)] = NoEntry
       /\ store[makeKey(keySpace, loads[n].key)] = toString(FetchObject(loads[n].key))
       /\ hist[cacheKeyFn(loads[n].key)] = NoHist
  /\ clears = <<>>

\* C15 (as claimed): when a fetch of a batch failed, a load of the batch whose
\* own position did not fail (a stored value or another fetch) is not rejected.
C15_LoadsIndependent ==
  \A n \in 1..Len(loads) :
    LET l == loads[n]
    IN (/\ l.entry.kind = "promise"
        /\ l.entry.i \in 1..Len(batches[l.entry.b].fetches)
        /\ batches[l.entry.b].fetches[l.entry.i].st # "err"
        /\ \E j \in 1..Len(batches[l.entry.b].fetches) :
             batches[l.entry.b].fetches[j].st = "err")
       => ~LoadRejected(l)

\* C16 (as claimed): a load of a key issued with no local entry, after the
\* backfill of an earlier batch wrote the object V its fetch of the key
\* resolved to and with the primary still holding it, gets no call of the
\* fetch function and, once resolved, V.
C16_SecondLoadServedFromStore ==
  \A n \in 1..Len(loads) :
    LET l == loads[n]
    IN (/\ l.objBy # 0
        /\ l.entry.kind = "promise"
        /\ l.entry.b # l.objBy
        /\ HasResults(batches[l.entry.b]))
       => /\ ~FetchInvoked(batches[l.entry.b], l.entry.i)
          /\ LoadResolved(l) => LoadValue(l) = FetchObject(l.key)

\* C16 (amended): the same load gets no call of the fetch function and
\* resolves to V when its multi-get read the entry the backfill wrote.
C16_SecondLoadServedFromReadEntry ==
  \A n \in 1..Len(loads) :
    LET l == loads[n]
    IN (/\ l.objBy # 0
        /\ l.entry.kind = "promise"
        /\ l.entry.b # l.objBy
        /\ HasResults(batches[l.entry.b])
        /\ batches[l.entry.b].raw[l.entry.i] = toString(FetchObject(l.key)))
       => /\ ~FetchInvoked(batches[l.entry.b], l.entry.i)
          /\ LoadResolved(l) => LoadValue(l) = FetchObject(l.key)

\* C16 witness: the second load of a key, after a local clear, resolved to the
\* object the first load fetched and wrote back, without a fetch of its own.
C16_Witness ==
  \E n \in 1..Len(loads) :
    LET l == loads[n]
    IN /\ l.objBy # 0
       /\ l.entry.kind = "promise"
       /\ l.entry.b # l.objBy
       /\ batches[l.entry.b].phase = "done"
       /\ batches[l.entry.b].from = "replica"
       /\ batches[l.entry.b].fetches[l.entry.i].st = "value"
       /\ batches[l.entry.b].dataToStore = <<>>
       /\ LoadValue(l) = FetchObject(l.key)

\* C17: two facades with different key-spaces give different full keys to the
\* same application key, and a set (of a prime or a backfill) or a del (of a
\* clear) by one facade for a key leaves the entry the other facade reads for
\* that key as it is.
C17_KeySpacesDoNotCollide ==
  [][/\ facades[1] # facades[2]
     /\ \A k \in KeyStrings : makeKey(facades[1], k) # makeKey(facades[2], k)
     /\ \A f \in 1..2, k \in KeyStrings :
          ((\E v \in PrimeVals : FacadeSet(f, k, v)) \/ FacadeDel(f, k))
            => store'[makeKey(facades[3 - f], k)] = store[makeKey(facades[3 - f], k)]
    ]_vars

\* C17 witness: one facade has no key-space, the other one has; both wrote
\* the key "a", the one an object and the other the empty payload.
C17_Witness ==
  /\ Len(facades) = 2
  /\ facades[1] = <<>>
  /\ facades[2] = <<"u">>
  /\ store[makeKey(facades[1], <<"a">>)] = "{P}"
  /\ store[makeKey(facades[2], <<"a">>)] = EmptyPayload

\* C18: when a load of a structured key follows a load of a key with the
\* same properties in another insertion order, the two keys have the same
\* full cache key and the same key in the local cache; if both loads are in
\* one tick they get the same promise; and as long as no local entry was
\* removed or replaced (no prime, clear or local clear was called and no
\* batch rejected) they get the same promise, so the same value, and no two
\* calls of the fetch function are for such keys.
C18_EqualStructuredKeysShareEntry ==
  \A n \in 2..Len(loads) :
    LET l == loads[n]
        p == loads[n - 1]
    IN SameProps(l.key, p.key) =>
         /\ makeKey(keySpace, l.key) = makeKey(keySpace, p.key)
         /\ cacheKeyFn(l.key) = cacheKeyFn(p.key)
         /\ l.prev = n - 1 => l.entry = p.entry
         /\ (/\ primes = <<>> /\ clears = <<>> /\ localClears = 0
             /\ \A b \in 1..Len(batches) : batches[b].phase # "failed")
            => /\ l.entry = p.entry
               /\ \A b, c \in 1..Len(batches) :
                    \A i \in 1..Len(batches[b].fetches),
                       j \in 1..Len(batches[c].fetches) :
                      (/\ FetchInvoked(batches[b], i)
                       /\ FetchInvoked(batches[c], j)
                       /\ SameProps(batches[b].keys[i], l.key)
                       /\ SameProps(batches[c].keys[j], l.key))
                        => (b = c /\ i = j)

\* C18 witness: a load of {x, y}, and after its batch resolved from one fetch
\* a load of {y, x}, resolved to the same object.
C18_Witness ==
  /\ Len(loads) >= 2
  /\ loads[1].key = KeyXY
  /\ loads[2].key = KeyYX
  /\ loads[2].prev = 0
  /\ loads[1].entry = loads[2].entry
  /\ loads[1].entry.kind = "promise"
  /\ Len(batches) = 1
  /\ batches[1].phase = "done"
  /\ Len(batches[1].dataToStore) = 1
  /\ LoadValue(loads[2]) = FetchObject(KeyXY)

\* C19 (as claimed): a batch whose multi-get read a payload that is not JSON
\* rejects with the error parse threw: no fetch was called, the multi-get was
\* not sent to the primary, and every load of the batch is rejected with that
\* error.
C19_DecodeErrorPropagates ==
  \A b \in 1..Len(batches) :
    LET bt == batches[b]
    IN bt.decodeErr # NoErr =>
         /\ bt.phase = "failed"
         /\ bt.err = bt.decodeErr
         /\ bt.fetches = <<>>
         /\ bt.rwMGets = 0
         /\ \A n \in 1..Len(loads) :
              (loads[n].entry.kind = "promise" /\ loads[n].entry.b = b)
                => LoadRejected(loads[n]) /\ LoadError(loads[n]) = bt.decodeErr

\* C20 (as claimed): a batch issues its pipelined set only when none of its
\* fetches is pending, and then exactly the set of its write-back entries; once
\* the batch has settled, it has issued the pipelined set if a miss produced a
\* write-back entry, and none if the multi-get found every key.
C20_OnePipelinedSetPerBatch ==
  \A b \in 1..Len(batches) :
    LET bt == batches[b]
        psets == {m \in 1..Len(rwConn) : rwConn[m].op = "pset" /\ rwConn[m].id = b}
    IN /\ bt.wrote # "none" =>
            \A i \in 1..Len(bt.fetches) : bt.fetches[i].st # "pending"
       /\ Cardinality(psets) = IF bt.wrote = "inflight" THEN 1 ELSE 0
       /\ \A m \in psets : rwConn[m] = rPipelineSet(b, bt.dataToStore)
       /\ bt.phase \in {"done", "failed"} =>
            /\ Len(bt.dataToStore) > 0 => bt.wrote # "none"
            /\ (HasResults(bt) /\ \A i \in 1..Len(bt.results) : bt.results[i] # Null)
                 => bt.wrote = "none"


\* C21 (as claimed): a fetch that resolved to "" or to undefined gives null in
\* the response and no write-back entry for its key, neither in dataToStore
\* nor in the pipelined set of the batch; a fetch that resolved to null gives
\* null in the response and the empty payload for its key in the pipelined set.
C21_EmptyFetchNotWrittenBack ==
  \A b \in 1..Len(batches) :
    LET bt == batches[b]
        psets == {m \in 1..Len(rwConn) : rwConn[m].op = "pset" /\ rwConn[m].id = b}
    IN \A i \in 1..Len(bt.fetches) :
         bt.fetches[i].st = "ok" =>
           LET resp == bt.fetches[i].resp
               fk == makeKey(keySpace, bt.keys[i])
           IN /\ (resp \in {EmptyStr, Undefined, Null} /\ bt.phase = "done")
                   => bt.response[i] = Null
              /\ resp \in {EmptyStr, Undefined} =>
                   /\ \A m \in 1..Len(bt.dataToStore) :
                        bt.dataToStore[m].key # bt.keys[i]
                   /\ \A m \in psets : \A j \in 1..Len(rwConn[m].keys) :
                        rwConn[m].keys[j] # fk
              /\ (resp = Null /\ bt.wrote = "inflight") =>
                   \E m \in psets : \E j \in 1..Len(rwConn[m].keys) :
                     rwConn[m].keys[j] = fk /\ rwConn[m].vals[j] = EmptyPayload


\* C22: in every batch that got its multi-get results there is one promise per
\* position; a position whose multi-get result is absent has one call of the
\* fetch function, and a position whose multi-get result is a stored JSON text
\* has none: its promise is fulfilled with the decoded text, which is also what
\* the response of the batch holds for it.
C22_FetchOncePerAbsentPosition ==
  \A b \in 1..Len(batches) :
    LET bt == batches[b]
    IN HasResults(bt) =>
         /\ Len(bt.fetches) = Len(bt.keys)
         /\ Len(bt.raw) = Len(bt.keys)
         /\ \A i \in 1..Len(bt.keys) :
              /\ bt.raw[i] = Nil =>
                   /\ FetchInvoked(bt, i)
                   /\ Cardinality({m \in 1..Len(bt.dataToStore) :
                                     bt.dataToStore[m].key = bt.keys[i]})
                        <= Cardinality({j \in 1..Len(bt.keys) :
                                          bt.keys[j] = bt.keys[i] /\ bt.fetches[j].st = "ok"})
              /\ bt.raw[i] \in JSONTexts =>
                   /\ ~FetchInvoked(bt, i)
                   /\ bt.fetches[i] = Slot("value", JSONparse(bt.raw[i]))
                   /\ bt.phase = "done" => bt.response[i] = JSONparse(bt.raw[i])

\* C22 witness: one batch of two keys, the first stored and the second absent,
\* has settled: no fetch for the first, which got the stored object, one fetch
\* for the second.
C22_Witness ==
  \E b \in 1..Len(batches) :
    LET bt == batches[b]
    IN /\ bt.phase = "done"
       /\ Len(bt.keys) = 2
       /\ bt.raw = <<"{A}", Nil>>
       /\ bt.fetches[1].st = "value" /\ bt.response[1] = "oA"
       /\ bt.fetches[2].st = "ok"
       /\ Len(bt.dataToStore) = 1


\* C23: in every step, the commands on redisRO are reads (the multi-get of a
\* batch, the get of a prime), never a set, an expire or a del; the entries of
\* the replica change only by taking over those of the primary; and a step in
\* which a set or a del fails on the primary, or in which the client handles
\* that failure, sends nothing on redisRO.
C23_WritesOnlyOnPrimary ==
  [][/\ \A n \in 1..Len(roConn') :
          roConn'[n].op \in {"mget", "get"} /\ roConn'[n].ex = 0
     /\ replica' # replica => replica' = store
     /\ (/\ rwConn # <<>>
         /\ Head(rwConn).op \in {"pset", "set", "setget", "del"}
         /\ rwConn' = Tail(rwConn)
         /\ store' = store)
          => roConn' = roConn
     /\ (/\ rwReplies # <<>>
         /\ ~Head(rwReplies).ok
         /\ Head(rwReplies).op \in {"set", "setget", "del"}
         /\ rwReplies' = Tail(rwReplies))
          => roConn' = roConn]_vars

\* C23 witness: a prime whose set failed on the primary was rejected, a clear
\* has deleted on the primary, a batch has written back on the primary, and
\* redisRO has nothing to answer.
C23_Witness ==
  /\ \E p \in 1..Len(primes) :
       primes[p].phase = "failed" /\ primes[p].err = WriteErr
  /\ \E c \in 1..Len(clears) : clears[c].applied
  /\ \E b \in 1..Len(batches) : batches[b].wrote = "applied"
  /\ roConn = <<>>


\* C24 (as claimed): a batch whose pipelined set failed sends no further set,
\* and a load of a key issued after the pipelined set that held the key's
\* write-back entry failed is put in a later batch, whose multi-get finds no
\* entry for the key and which calls the fetch function for it.
C24_FailedBackfillRefetched ==
  /\ \A b \in 1..Len(batches) :
       batches[b].wrote = "failed" =>
         \A m \in 1..Len(rwConn) : ~(rwConn[m].op = "pset" /\ rwConn[m].id = b)
  /\ \A n \in 1..Len(loads) :
       LET l == loads[n]
       IN l.lostBy # 0 =>
            /\ l.entry.kind = "promise"
            /\ l.entry.b # l.lostBy
            /\ HasResults(batches[l.entry.b]) =>
                 /\ batches[l.entry.b].raw[l.entry.i] = Nil
                 /\ FetchInvoked(batches[l.entry.b], l.entry.i)

\* C24 (amended): a batch whose pipelined set failed sends no further set, and
\* such a load, when it found no local entry and the multi-get of its batch no
\* entry in the store, gets a call of the fetch function.
C24_FailedBackfillRefetchedOnMiss ==
  /\ \A b \in 1..Len(batches) :
       batches[b].wrote = "failed" =>
         \A m \in 1..Len(rwConn) : ~(rwConn[m].op = "pset" /\ rwConn[m].id = b)
  /\ \A n \in 1..Len(loads) :
       LET l == loads[n]
       IN (/\ l.lostBy # 0
           /\ l.entry.kind = "promise"
           /\ l.entry.b # l.lostBy
           /\ HasResults(batches[l.entry.b])
           /\ batches[l.entry.b].raw[l.entry.i] = Nil)
          => FetchInvoked(batches[l.entry.b], l.entry.i)

\* C24 witness: the pipelined set of the first load of a key failed and left
\* nothing in the store; after a local clear the key was loaded again and
\* fetched again.
C24_Witness ==
  \E n \in 1..Len(loads) :
    LET l == loads[n]
    IN /\ l.lostBy # 0
       /\ l.entry.kind = "promise"
       /\ l.entry.b # l.lostBy
       /\ batches[l.entry.b].phase = "done"
       /\ batches[l.entry.b].raw[l.entry.i] = Nil
       /\ batches[l.entry.b].fetches[l.entry.i].st = "ok"
       /\ batches[l.lostBy].wrote = "failed"


\* C25 (as claimed): with expire configured every entry of the store carries
\* the configured expiry, in every reachable state (the store starts empty, so
\* every entry was written by this layer); without expire no entry has one.
C25_EntriesCarryExpiry ==
  \A fk \in DOMAIN store :
    /\ (options.expire # 0 /\ store[fk] # Nil) => ttl[fk] = options.expire
    /\ options.expire = 0 => ttl[fk] = 0


\* C26 (as claimed): once prime(key, V) has resolved with V as the local entry
\* of the key, and as long as no other prime and no clear of the key is
\* called (no expiry is configured), the primary holds the encoding of V for
\* the key, whatever backfill a batch that fetched the key issues afterwards:
\* the store and the local entry the prime left do not diverge.
C26_PrimedEntryNotOverwritten ==
  \A p \in 1..Len(primes) :
    (/\ primes[p].phase = "done"
     /\ primes[p].r = primes[p].val
     /\ \A q \in 1..Len(primes) : q # p => primes[q].key # primes[p].key
     /\ \A c \in 1..Len(clears) : clears[c].key # primes[p].key)
    => store[makeKey(keySpace, primes[p].key)] = toString(primes[p].val)

\* C27 (as claimed): a batch with a position whose fetch was rejected has sent
\* no pipelined set, so nothing is stored for that key by the batch, and every
\* load of that position is rejected with the error of that fetch.
C27_RejectedFetchNotStored ==
  \A b \in 1..Len(batches) :
    LET bt == batches[b]
    IN \A i \in 1..Len(bt.fetches) :
         bt.fetches[i].st = "err" =>
           /\ bt.wrote = "none"
           /\ \A m \in 1..Len(rwConn) : ~(rwConn[m].op = "pset" /\ rwConn[m].id = b)
           /\ \A n \in 1..Len(loads) :
                (/\ loads[n].entry.kind = "promise"
                 /\ loads[n].entry.b = b
                 /\ loads[n].entry.i = i)
                => /\ LoadRejected(loads[n])
                   /\ LoadError(loads[n]) = FetchError(bt.keys[i])


\* C28: a step in which a prime or a clear is rejected for a failure of its
\* store operation (the set or the fallback get on the primary, the read-back
\* on the replica, the del) records that error for it and leaves the local
\* cache as it is; and so does the step of the call itself.
C28_FailedPrimeOrClearLeavesLocalCache ==
  [][/\ \A p \in 1..Len(primes) :
          (primes[p].phase # "failed" /\ primes'[p].phase = "failed")
          => /\ cache' = cache
             /\ IF primes[p].phase = "get"
                THEN /\ ~isReplicaLoadingDataError(primes'[p].err)
                     /\ \/ primes'[p].err \in ReplicaErrors
                        \/ \E fk \in DOMAIN replica :
                             /\ JSONparseThrows(replica[fk])
                             /\ primes'[p].err \in SyntaxErrors(replica[fk])
                ELSE /\ rwReplies # <<>>
                     /\ ~Head(rwReplies).ok
                     /\ primes'[p].err = Head(rwReplies).err
     /\ \A c \in 1..Len(clears) :
          (clears[c].phase # "failed" /\ clears'[c].phase = "failed")
          => /\ cache' = cache
             /\ rwReplies # <<>>
             /\ ~Head(rwReplies).ok
             /\ clears'[c].err = Head(rwReplies).err
     /\ (Len(primes') > Len(primes) \/ Len(clears') > Len(clears))
          => cache' = cache]_vars

\* C28 witness: a key has the local entry an earlier prime left; a second
\* prime of the key failed on its set and a clear of the key on its del, and
\* the entry is still there.
C28_Witness ==
  \E p \in 1..Len(primes), c \in 1..Len(clears) :
    /\ primes[p].phase = "failed" /\ primes[p].err = WriteErr
    /\ clears[c].phase = "failed" /\ clears[c].err = WriteErr
    /\ clears[c].key = primes[p].key
    /\ cache[cacheKeyFn(primes[p].key)].kind = "value"


\* C29: when every command and every fetch is answered, every load is
\* eventually resolved or rejected; and a batch has settled its loads by the
\* time its pipelined set is sent, so no load waits for a backfill.
C29_LoadsEventuallySettle ==
  /\ \A n \in 1..MaxCalls :
       (n <= Len(loads)) ~>
         (n <= Len(loads) /\ (LoadResolved(loads[n]) \/ LoadRejected(loads[n])))
  /\ [](\A b \in 1..Len(batches) :
          batches[b].wrote # "none" => batches[b].phase = "done")

\* C29 witness: a load was put in a batch that went to the replica, fell back
\* to the primary, fetched, and has resolved while the backfill of its batch is
\* still on its way to the primary.
C29_Witness ==
  \E n \in 1..Len(loads) :
    /\ loads[n].entry.kind = "promise"
    /\ LET bt == batches[loads[n].entry.b]
       IN /\ bt.phase = "done"
          /\ bt.roErr = LoadingErr
          /\ bt.fetches[loads[n].entry.i].st = "ok"
          /\ bt.wrote = "inflight"
    /\ LoadResolved(loads[n])


\* C30 (as claimed): for the key-spaces of any two facades and any two keys,
\* with ':' in a key-space or in a key and with the empty key-space among
\* them, two different pairs of key-space and key have different full keys: a
\* set or a del by a facade for a key changes no entry that belongs to another
\* pair of key-space and key.
C30_MakeKeyInjective ==
  [][\A f \in 1..2, k \in KeyStrings :
       ((\E v \in PrimeVals : FacadeSet(f, k, v)) \/ FacadeDel(f, k))
         => \A g \in 1..2, k2 \in KeyStrings :
              <<facades[g], cacheKeyFn(k2)>> # <<facades[f], cacheKeyFn(k)>>
                => /\ makeKey(facades[g], k2) # makeKey(facades[f], k)
                   /\ store'[makeKey(facades[g], k2)] = store[makeKey(facades[g], k2)]
    ]_vars
====
